---- MODULE Spec2Model ----
(***************************************************************************)
(* Session manager and streaming event bridge of the Copilot wrapper       *)
(* service (class CopilotService): the session registry, the streaming     *)
(* event handler of sendPromptStreaming with its prompt-echo stripping and *)
(* completion detection, and the non-streaming sendPrompt.                 *)
(*                                                                         *)
(* Strings are sequences of one-character strings.  An async method is     *)
(* split at its awaits: one action runs the code from one await to the     *)
(* next.  A listener call, a timer callback and a synchronous method are   *)
(* one action each.                                                        *)
(***************************************************************************)
EXTENDS Integers, Sequences, FiniteSets, TLC

\* ------------------------------------------------------------------ bounds
MaxTurns == 1       \* sendPromptStreaming calls
MaxReuseTurns == 2  \* sendPromptStreaming calls where a session is reused
MaxOps == 1         \* createNewSession / getOrCreateSession calls
MaxClock == 1       \* Date.now() takes the values 0..MaxClock
NumRand == 2        \* distinct suffixes Math.random() can produce
MaxEvents == 2      \* events the assistant emits on streaming sessions
MaxPromptLen == 2   \* length of a prompt in the echo-filter specifications
MaxContentLen == 3  \* length of an event's text there
MaxEchoEvents == 2  \* events the assistant emits there
MaxDeltaLen == 1    \* length of a delta's text in the delta-only specification
MaxWrites == 2      \* times a file of the output directory is written
MaxPassLen == 2     \* length of a delta's text in the pass-through specification
MaxPassEvents == 2  \* events the assistant emits there

\* ----------------------------------------------------------------- strings
Lower(c) == IF c = "A" THEN "a" ELSE IF c = "B" THEN "b" ELSE c

\* String.prototype.toLowerCase
ToLowerCase(s) == [i \in 1..Len(s) |-> Lower(s[i])]

IsWs(c) == c \in {" ", "\n"}

\* String.prototype.trimStart
RECURSIVE TrimStart(_)
TrimStart(s) == IF s # <<>> /\ IsWs(Head(s)) THEN TrimStart(Tail(s)) ELSE s

RECURSIVE TrimEnd(_)
TrimEnd(s) ==
    IF s # <<>> /\ IsWs(s[Len(s)]) THEN TrimEnd(SubSeq(s, 1, Len(s) - 1)) ELSE s

\* String.prototype.trim
Trim(s) == TrimEnd(TrimStart(s))

\* String.prototype.startsWith
StartsWith(s, p) == Len(p) <= Len(s) /\ SubSeq(s, 1, Len(p)) = p

\* String.prototype.substring(n): the characters from index n (0-based) on
Substring(s, n) == IF n >= Len(s) THEN <<>> ELSE SubSeq(s, n + 1, Len(s))

RECURSIVE Concat(_)
Concat(ss) == IF ss = <<>> THEN <<>> ELSE Head(ss) \o Concat(Tail(ss))

\* a || b || ... on strings: the first non-empty one, else the last
RECURSIVE FirstTruthy(_)
FirstTruthy(ss) ==
    IF Len(ss) = 1 THEN Head(ss)
    ELSE IF Head(ss) # <<>> THEN Head(ss) ELSE FirstTruthy(Tail(ss))

\* ------------------------------------------------------------------ events
\* An event envelope: the three discriminator keys ("" when absent) and the
\* payload with its content keys (<<>> when absent or empty).
NoData ==
    [deltaContent |-> <<>>, deltaInner |-> <<>>, content |-> <<>>, text |-> <<>>,
     message |-> <<>>, output |-> <<>>, result |-> <<>>, status |-> <<>>,
     error |-> <<>>]

Ev(type, data) == [type |-> type, event |-> "", kind |-> "", data |-> data]

\* const eventType = event.type || event.event || event.kind
EventType(ev) ==
    IF ev.type # "" THEN ev.type ELSE IF ev.event # "" THEN ev.event ELSE ev.kind

IsDeltaType(ty) == ty \in {"assistant.message_delta", "message_delta", "delta"}
IsMessageType(ty) == ty \in {"assistant.message", "message"}
IsIdleType(ty) == ty \in {"session.idle", "idle", "done", "complete"}
IsToolType(ty) == ty \in {"tool.output", "tool_output", "tool.result"}
IsStatusType(ty) == ty \in {"assistant.status", "status", "progress"}
IsErrorType(ty) == ty = "error"

DeltaContent(d) == FirstTruthy(<<d.deltaContent, d.deltaInner, d.content, d.text>>)
MessageContent(d) == FirstTruthy(<<d.content, d.message, d.text>>)
ToolContent(d) == FirstTruthy(<<d.output, d.result, d.content, d.text>>)
StatusContent(d) == FirstTruthy(<<d.message, d.status, d.content, d.text>>)
UnknownContent(d) == FirstTruthy(<<d.content, d.text, d.message, d.output>>)
UnknownError == <<"U">>
ErrorMessage(d) == FirstTruthy(<<d.message, d.error, UnknownError>>)

\* A payload value that is truthy and is not a string (an object, a number)
Object == <<"[object]">>

\* typeof content === 'string'
IsString(content) == content # Object

\* ------------------------------------------------------- identifiers, turns
\* `session_${Date.now()}_${Math.random().toString(36).substring(7)}`
SessionId(ms, rnd) == <<ms, rnd>>
Ids == {SessionId(ms, rnd) : ms \in 0..MaxClock, rnd \in 1..NumRand}
NoId == <<>>            \* sessionId = null
NoHandle == 0

Turns == 1..MaxReuseTurns
Ops == 1..MaxOps

\* Which of the caller's callbacks throw when they are called in this step.
\* One run of the listener calls onChunk or onComplete or onError, and
\* onError once more in its catch block.
Throws ==
    {thr \in [onChunk : BOOLEAN, onComplete : BOOLEAN, onError : BOOLEAN] :
        ~(thr.onComplete /\ (thr.onChunk \/ thr.onError))}
NoThrow == [onChunk |-> FALSE, onComplete |-> FALSE, onError |-> FALSE]

Pending == [state |-> "pending", value |-> NoId]
NoPromise == [state |-> "none", value |-> NoId]
Exception == <<"X">>    \* the message of an exception thrown by a callback

\* The closure of one sendPromptStreaming call: its arguments, the locals of
\* the promise executor, and what its callbacks and its promise have seen
\* (chunks, completed, errors: the arguments of the onChunk, onComplete and
\* onError calls so far).  sawCompletion, sawError, sawOther, deltaText and
\* lateText record which events were delivered to its listener (lateText:
\* one that carries text, after a terminal callback; deltas: the texts of
\* the delta events, one by one; droppedMessage: a full message with text
\* reached the turn while it was active and had received deltas);
\* afterDelete: the sessionId argument had been deleted before the call.
NewTurn ==
    [pc |-> "none", prompt |-> <<>>, sessionId |-> NoId,
     currentSessionId |-> NoId, session |-> NoHandle, listening |-> FALSE,
     hasCompleted |-> FALSE, hasError |-> FALSE, hasReceivedDeltas |-> FALSE,
     accumulatedContent |-> <<>>, promptStripped |-> FALSE,
     timeoutId |-> "none",
     chunks |-> <<>>, completed |-> <<>>, errors |-> <<>>,
     promise |-> NoPromise,
     sawCompletion |-> FALSE, sawError |-> FALSE, sawOther |-> FALSE,
     deltaText |-> <<>>, lateText |-> FALSE, deltas |-> <<>>,
     droppedMessage |-> FALSE, afterDelete |-> FALSE]

\* resolve(v) / reject(e): a settled promise stays as it is
Resolve(ts, v) ==
    IF ts.promise.state = "pending"
    THEN [ts EXCEPT !.promise = [state |-> "resolved", value |-> v]] ELSE ts
Reject(ts, e) ==
    IF ts.promise.state = "pending"
    THEN [ts EXCEPT !.promise = [state |-> "rejected", value |-> e]] ELSE ts

\* clearTimeout(timeoutId)
ClearTimeout(ts) ==
    IF ts.timeoutId = "armed" THEN [ts EXCEPT !.timeoutId = "cleared"] ELSE ts

\* A branch of the handler ends normally or by an exception.
Ok(ts) == [ts |-> ts, threw |-> FALSE]
Threw(ts) == [ts |-> ts, threw |-> TRUE]

\* onChunk(text)
OnChunk(ts, text, thr) ==
    LET called == [ts EXCEPT !.chunks = Append(@, text)]
    IN  IF thr.onChunk THEN Threw(called) ELSE Ok(called)

\* ------------------------------------------ the listener of a streaming turn
\* Each branch takes the closure ts and the payload d of the event.

\* DeltaBranch that forwards the accumulation buffer instead of the text
\* of the delta when no echo has been recognised.
DeltaBranch_ForwardingBuffer(ts, d, thr) ==
    IF ts.hasCompleted \/ ts.hasError THEN Ok(ts)
    ELSE
    LET content == DeltaContent(d) IN
    IF content = <<>> THEN Ok(ts)
    ELSE
    LET acc == ts.accumulatedContent \o content
        t1 == [ts EXCEPT !.hasReceivedDeltas = TRUE, !.accumulatedContent = acc]
    IN
    IF ~ts.promptStripped
    THEN IF StartsWith(ToLowerCase(Trim(acc)), ToLowerCase(Trim(ts.prompt)))
         THEN LET rest == TrimStart(Substring(Trim(acc), Len(Trim(ts.prompt))))
                  t2 == [t1 EXCEPT !.accumulatedContent = rest,
                                   !.promptStripped = TRUE]
                  sent == IF rest # <<>> THEN OnChunk(t2, rest, thr) ELSE Ok(t2)
              IN  IF sent.threw THEN sent
                  ELSE Ok([sent.ts EXCEPT !.accumulatedContent = <<>>])
         ELSE IF Len(acc) > Len(ts.prompt) * 2
              THEN OnChunk([t1 EXCEPT !.promptStripped = TRUE], acc, thr)
              ELSE OnChunk(t1, acc, thr)
    ELSE OnChunk(t1, content, thr)

\* DeltaBranch that forwards nothing of the delta with which the length
\* test resolves the filter.
DeltaBranch_ResolvingSilently(ts, d, thr) ==
    IF ts.hasCompleted \/ ts.hasError THEN Ok(ts)
    ELSE
    LET content == DeltaContent(d) IN
    IF content = <<>> THEN Ok(ts)
    ELSE
    LET acc == ts.accumulatedContent \o content
        t1 == [ts EXCEPT !.hasReceivedDeltas = TRUE, !.accumulatedContent = acc]
    IN
    IF ~ts.promptStripped
    THEN IF StartsWith(ToLowerCase(Trim(acc)), ToLowerCase(Trim(ts.prompt)))
         THEN LET rest == TrimStart(Substring(Trim(acc), Len(Trim(ts.prompt))))
                  t2 == [t1 EXCEPT !.accumulatedContent = rest,
                                   !.promptStripped = TRUE]
                  sent == IF rest # <<>> THEN OnChunk(t2, rest, thr) ELSE Ok(t2)
              IN  IF sent.threw THEN sent
                  ELSE Ok([sent.ts EXCEPT !.accumulatedContent = <<>>])
         ELSE IF Len(acc) > Len(ts.prompt) * 2
              THEN Ok([t1 EXCEPT !.promptStripped = TRUE])
              ELSE OnChunk(t1, content, thr)
    ELSE OnChunk(t1, content, thr)

\* eventType is assistant.message_delta, message_delta or delta
DeltaBranch(ts, d, thr) ==
    IF ts.hasCompleted \/ ts.hasError THEN Ok(ts)
    ELSE
    LET content == DeltaContent(d) IN
    IF content = <<>> THEN Ok(ts)
    ELSE
    LET acc == ts.accumulatedContent \o content
        t1 == [ts EXCEPT !.hasReceivedDeltas = TRUE, !.accumulatedContent = acc]
    IN
    IF ~ts.promptStripped
    THEN IF StartsWith(ToLowerCase(Trim(acc)), ToLowerCase(Trim(ts.prompt)))
         THEN LET rest == TrimStart(Substring(Trim(acc), Len(Trim(ts.prompt))))
                  t2 == [t1 EXCEPT !.accumulatedContent = rest,
                                   !.promptStripped = TRUE]
                  sent == IF rest # <<>> THEN OnChunk(t2, rest, thr) ELSE Ok(t2)
              IN  IF sent.threw THEN sent
                  ELSE Ok([sent.ts EXCEPT !.accumulatedContent = <<>>])
         ELSE IF Len(acc) > Len(ts.prompt) * 2
              THEN OnChunk([t1 EXCEPT !.promptStripped = TRUE], content, thr)
              ELSE OnChunk(t1, content, thr)
    ELSE OnChunk(t1, content, thr)

\* MessageBranch without the !hasReceivedDeltas test: a full message is
\* forwarded although its text has been streamed as deltas.
MessageBranch_IgnoringDeltas(ts, d, thr) ==
    IF ts.hasCompleted \/ ts.hasError THEN Ok(ts)
    ELSE
    LET content == MessageContent(d) IN
    IF content = <<>> THEN Ok(ts)
    ELSE
    LET stripped ==
            IF StartsWith(ToLowerCase(Trim(content)), ToLowerCase(Trim(ts.prompt)))
            THEN TrimStart(Substring(Trim(content), Len(Trim(ts.prompt))))
            ELSE content
    IN  IF stripped # <<>> THEN OnChunk(ts, stripped, thr) ELSE Ok(ts)

\* eventType is assistant.message or message
MessageBranch(ts, d, thr) ==
    IF ts.hasCompleted \/ ts.hasError \/ ts.hasReceivedDeltas THEN Ok(ts)
    ELSE
    LET content == MessageContent(d) IN
    IF content = <<>> THEN Ok(ts)
    ELSE
    LET stripped ==
            IF StartsWith(ToLowerCase(Trim(content)), ToLowerCase(Trim(ts.prompt)))
            THEN TrimStart(Substring(Trim(content), Len(Trim(ts.prompt))))
            ELSE content
    IN  IF stripped # <<>> THEN OnChunk(ts, stripped, thr) ELSE Ok(ts)

\* IdleBranch with the guard reduced to !hasCompleted: a completion event
\* completes a turn that has already errored.
IdleBranch_IgnoringError(ts, d, thr) ==
    IF ts.hasCompleted THEN Ok(ts)
    ELSE
    LET t1 == [ClearTimeout(ts) EXCEPT
                  !.hasCompleted = TRUE,
                  !.completed = Append(@, ts.currentSessionId)]
    IN  IF thr.onComplete THEN Threw(t1)
        ELSE Ok(Resolve(t1, ts.currentSessionId))

\* eventType is session.idle, idle, done or complete
IdleBranch(ts, d, thr) ==
    IF ts.hasCompleted \/ ts.hasError THEN Ok(ts)
    ELSE
    LET t1 == [ClearTimeout(ts) EXCEPT
                  !.hasCompleted = TRUE,
                  !.completed = Append(@, ts.currentSessionId)]
    IN  IF thr.onComplete THEN Threw(t1)
        ELSE Ok(Resolve(t1, ts.currentSessionId))

\* eventType is tool.output, tool_output or tool.result
ToolBranch(ts, d, thr) ==
    IF ts.hasCompleted \/ ts.hasError THEN Ok(ts)
    ELSE IF ToolContent(d) # <<>> THEN OnChunk(ts, ToolContent(d), thr) ELSE Ok(ts)

\* eventType is assistant.status, status or progress
StatusBranch(ts, d, thr) ==
    IF ts.hasCompleted \/ ts.hasError THEN Ok(ts)
    ELSE IF StatusContent(d) # <<>>
         THEN OnChunk(ts, StatusContent(d) \o <<"\n">>, thr) ELSE Ok(ts)

\* ErrorBranch without clearTimeout(timeoutId)
ErrorBranch_KeepingTimer(ts, d, thr) ==
    IF ts.hasError THEN Ok(ts)
    ELSE
    LET t1 == [ts EXCEPT !.hasError = TRUE,
                         !.errors = Append(@, ErrorMessage(d))]
    IN  IF thr.onError THEN Threw(t1) ELSE Ok(Reject(t1, ErrorMessage(d)))

\* eventType is error
ErrorBranch(ts, d, thr) ==
    IF ts.hasError THEN Ok(ts)
    ELSE
    LET t1 == [ClearTimeout(ts) EXCEPT
                  !.hasError = TRUE,
                  !.errors = Append(@, ErrorMessage(d))]
    IN  IF thr.onError THEN Threw(t1) ELSE Ok(Reject(t1, ErrorMessage(d)))

\* UnhandledBranch without the !hasCompleted && !hasError guard: the text
\* of an unrecognised event is forwarded whatever the state of the turn.
UnhandledBranch_Unguarded(ts, d, thr) ==
    IF UnknownContent(d) # <<>> /\ IsString(UnknownContent(d))
    THEN OnChunk(ts, UnknownContent(d), thr) ELSE Ok(ts)

\* UnhandledBranch without the typeof test: whatever the content keys
\* hold is passed to onChunk.
UnhandledBranch_AnyContent(ts, d, thr) ==
    IF UnknownContent(d) # <<>> /\ ~ts.hasCompleted /\ ~ts.hasError
    THEN OnChunk(ts, UnknownContent(d), thr) ELSE Ok(ts)

\* any other eventType
UnhandledBranch(ts, d, thr) ==
    IF /\ UnknownContent(d) # <<>> /\ IsString(UnknownContent(d))
       /\ ~ts.hasCompleted /\ ~ts.hasError
    THEN OnChunk(ts, UnknownContent(d), thr) ELSE Ok(ts)

\* catch (error) { ... } of the listener.  When onError throws here, the
\* exception leaves the listener and reject is not reached.
HandlerCatch(ts, thr) ==
    IF ts.hasCompleted \/ ts.hasError THEN ts
    ELSE
    LET t1 == [ClearTimeout(ts) EXCEPT
                  !.hasError = TRUE,
                  !.errors = Append(@, Exception)]
    IN  IF thr.onError THEN t1 ELSE Reject(t1, Exception)

\* try { ... } of the listener: the branch chosen by eventType
HandlerTry(ts, ev, thr) ==
    LET ty == EventType(ev)
        d == ev.data
    IN  IF IsDeltaType(ty) THEN DeltaBranch(ts, d, thr)
        ELSE IF IsMessageType(ty) THEN MessageBranch(ts, d, thr)
        ELSE IF IsIdleType(ty) THEN IdleBranch(ts, d, thr)
        ELSE IF IsToolType(ty) THEN ToolBranch(ts, d, thr)
        ELSE IF IsStatusType(ty) THEN StatusBranch(ts, d, thr)
        ELSE IF IsErrorType(ty) THEN ErrorBranch(ts, d, thr)
        ELSE UnhandledBranch(ts, d, thr)

\* The text the listener reads from ev (<<>>: none)
EventText(ev) ==
    LET ty == EventType(ev)
        d == ev.data
    IN  IF IsDeltaType(ty) THEN DeltaContent(d)
        ELSE IF IsMessageType(ty) THEN MessageContent(d)
        ELSE IF IsToolType(ty) THEN ToolContent(d)
        ELSE IF IsStatusType(ty) THEN StatusContent(d)
        ELSE IF IsIdleType(ty) \/ IsErrorType(ty) THEN <<>>
        ELSE UnknownContent(d)

\* What the delivery of ev adds to the turn's record of delivered events.
Delivered(ts, ev) ==
    LET ty == EventType(ev) IN
    [ts EXCEPT
        !.lateText = @ \/ (EventText(ev) # <<>>
                            /\ (ts.completed # <<>> \/ ts.errors # <<>>)),
        !.sawCompletion = @ \/ IsIdleType(ty),
        !.sawError = @ \/ IsErrorType(ty),
        !.sawOther = @ \/ ~(IsDeltaType(ty) \/ IsIdleType(ty) \/ IsErrorType(ty)),
        !.deltaText = IF IsDeltaType(ty) THEN @ \o DeltaContent(ev.data) ELSE @,
        !.deltas = IF IsDeltaType(ty) /\ DeltaContent(ev.data) # <<>>
                   THEN Append(@, DeltaContent(ev.data)) ELSE @,
        !.droppedMessage =
            @ \/ (/\ IsMessageType(ty) /\ MessageContent(ev.data) # <<>>
                  /\ ts.hasReceivedDeltas
                  /\ ~ts.hasCompleted /\ ~ts.hasError)]

\* session.on((event) => { try { ... } catch (error) { ... } })
Listener(ts, ev, thr) ==
    LET r == HandlerTry(Delivered(ts, ev), ev, thr)
    IN  IF r.threw THEN HandlerCatch(r.ts, thr) ELSE r.ts

\* setTimeout(() => { ... }, 120000)
TimeoutCallback(ts, thr) ==
    LET fired == [ts EXCEPT !.timeoutId = "fired"] IN
    IF ts.hasCompleted \/ ts.hasError THEN fired
    ELSE
    LET t1 == [fired EXCEPT !.hasCompleted = TRUE,
                            !.completed = Append(@, ts.currentSessionId)]
    IN  IF thr.onComplete THEN t1 ELSE Resolve(t1, ts.currentSessionId)

\* new Promise((resolve, reject) => { ... }): arm the timer, register the
\* listener, send the prompt.  sendThrows: session.send throws synchronously.
\* An exception of onError inside the executor rejects the promise as well.
Executor(ts, sendThrows) ==
    LET t1 == [ts EXCEPT !.pc = "active", !.promise = Pending,
                         !.timeoutId = "armed", !.listening = TRUE]
    IN  IF sendThrows
        THEN Reject([ClearTimeout(t1) EXCEPT
                        !.hasError = TRUE, !.errors = Append(@, Exception)],
                    Exception)
        ELSE t1

\* catch (error) { ... } around the whole of sendPromptStreaming: initialize
\* or createSession failed.  When onError throws here, its exception
\* replaces the error that `throw error` would have rethrown.
AdapterError == <<"F">>
OuterCatch(ts, thr) ==
    Reject([ts EXCEPT !.pc = "failed", !.errors = Append(@, AdapterError)],
           IF thr.onError THEN Exception ELSE AdapterError)

\* ------------------------------------------------------------------- state
VARIABLES
    client,     \* this.client: "null", or the state of the CopilotClient object
    sessions,   \* this.sessions: identifier -> [session, messageCount]
    turns,      \* the sendPromptStreaming calls
    ops,        \* the createNewSession / getOrCreateSession calls
    now,        \* Date.now()
    handles,    \* session handles the adapter has returned so far
    emitted,    \* events the assistant has emitted so far
    lastDelete, \* the last deleteSession call: its argument, its result, the
                \* handle of the entry it removed, whether it released it
    deleted,    \* identifiers deleteSession has removed so far
    send,       \* the sendPrompt call
    outputDir,  \* the shared output directory: filename -> times written
    watchers,   \* the artifact watcher of each turn
    responses,  \* the HTTP response of each turn made by POST /api/chat/stream
    shutdown    \* the stop() call: its position, and the number of handles
                \* the adapter had returned when it completed

vars == <<client, sessions, turns, ops, now, handles, emitted, lastDelete,
          deleted, send, outputDir, watchers, responses, shutdown>>

\* The files the assistant runtime can write to the output directory.
FileNames == {"f", "g"}

\* The files in the directory dir
Present(dir) == {f \in FileNames : dir[f] > 0}

\* The artifact watcher of a turn: baseline, the directory when the turn
\* began; notified, the "already notified" set; announced, the filenames of
\* its notification chunks.  rechecked: files of the baseline it examined
\* after they were modified; repeated: new files it examined again after
\* announcing them.
NewWatcher ==
    [state |-> "none", baseline |-> [f \in FileNames |-> 0], notified |-> {},
     announced |-> <<>>, rechecked |-> {}, repeated |-> {}]

\* A createNewSession or getOrCreateSession call.  known: the argument was
\* registered at the call; calls: createSession calls it issued; added:
\* registry keys it added; afterDelete: the argument had been deleted before;
\* error: what the call threw.
NewOp ==
    [pc |-> "none", kind |-> "none", sessionId |-> NoId, newId |-> NoId,
     result |-> NoId, known |-> FALSE, calls |-> 0, added |-> 0,
     afterDelete |-> FALSE, error |-> <<>>]

\* sessionId && this.sessions.has(sessionId)
Known(id) == id # NoId /\ id \in DOMAIN sessions

\* this.sessions.set(id, {session, model, createdAt, messageCount})
SessionsSet(id, handle, count) ==
    [k \in DOMAIN sessions \cup {id} |->
        IF k = id THEN [session |-> handle, messageCount |-> count]
        ELSE sessions[k]]

\* Identifiers generated so far (each is kept in the call that generated it).
Generated ==
    ({turns[t].currentSessionId : t \in Turns} \cup {ops[o].newId : o \in Ops})
        \ {NoId}

\* The suffixes Math.random() can give now.  Suffixes count only by being
\* equal or different, so those drawn within one millisecond are numbered in
\* the order of their first appearance: a draw repeats one of them or is the
\* next number.
Suffixes ==
    LET used == {id[2] : id \in {g \in Generated : g[1] = now}}
        next == Cardinality(used) + 1
    IN  1..(IF next <= NumRand THEN next ELSE NumRand)

\* An identifier no session ever had.
UnknownId == SessionId(0, 0)

\* The sessionId arguments a caller can pass: none, a registered one, one
\* that was deleted, one that never existed.
SessionIdArgs == {NoId, UnknownId} \cup DOMAIN sessions \cup deleted

\* The closure of one sendPrompt call: its prompt, the session it created,
\* the locals of its promise executor, the timer started after sendAndWait
\* and its promise (resolved with fullResponse).
NewSend ==
    [pc |-> "none", prompt |-> <<>>, sessionId |-> NoId, session |-> NoHandle,
     fullResponse |-> <<>>, chunks |-> <<>>, receivedIdle |-> FALSE,
     idleTimer |-> "none", promise |-> NoPromise, events |-> 0]

\* The response of one POST /api/chat/stream request.  streamEnded: the
\* handler's flag; ended: res.end() was called; destroyed: res.destroyed;
\* written: the data messages written so far; caught: the handler's catch
\* block has run.  state is "none" for a turn no request made.
NewResponse ==
    [state |-> "none", streamEnded |-> FALSE, ended |-> FALSE,
     destroyed |-> FALSE, written |-> <<>>, caught |-> FALSE]

\* `data: ${JSON.stringify({ processing | chunk | done | error })}\n\n`
Message(kind, text) == [kind |-> kind, text |-> text]

\* endStream(reason)
EndStream(r) == [r EXCEPT !.streamEnded = TRUE]

\* res.writable
Writable(r) == ~r.ended /\ ~r.destroyed

\* res.write(m): nothing is sent on a response that is ended or destroyed
ResWrite(r, m) ==
    IF Writable(r) THEN [r EXCEPT !.written = Append(@, m)] ELSE r

\* The onChunk closure of the handler.  fails: res.write throws.
StreamOnChunk(r, chunk, fails) ==
    IF ~r.streamEnded /\ ~r.destroyed /\ Writable(r)
    THEN IF fails THEN EndStream(r) ELSE ResWrite(r, Message("chunk", chunk))
    ELSE r

\* StreamOnComplete that writes the completion signal and leaves the stream
\* open: neither res.end() nor endStream is called.
StreamOnComplete_LeavingOpen(r, fails) ==
    IF ~r.streamEnded /\ ~r.destroyed /\ Writable(r) /\ ~fails
    THEN ResWrite(r, Message("done", <<>>))
    ELSE r

\* The onComplete closure of the handler
StreamOnComplete(r, fails) ==
    EndStream(IF ~r.streamEnded /\ ~r.destroyed /\ Writable(r) /\ ~fails
              THEN [ResWrite(r, Message("done", <<>>)) EXCEPT !.ended = TRUE]
              ELSE r)

\* The onError closure of the handler
StreamOnError(r, message, fails) ==
    EndStream(IF ~r.streamEnded /\ ~r.destroyed /\ Writable(r) /\ ~fails
              THEN [ResWrite(r, Message("error", message)) EXCEPT !.ended = TRUE]
              ELSE r)

\* catch (error) { ... } of the handler: it tests streamEnded and
\* res.destroyed, not res.writable
StreamCatchBlock(r, message, fails) ==
    [(IF ~r.streamEnded /\ ~r.destroyed /\ ~fails
      THEN [ResWrite(r, Message("error", message)) EXCEPT !.ended = TRUE]
      ELSE r) EXCEPT !.caught = TRUE]

\* The handler's closures run when a step of the service calls the turn's
\* callbacks: ts is the turn before the step and ts2 after it.  One step
\* calls onChunk, then onComplete, then onError, each at most once.
Respond(r, ts, ts2, fails) ==
    IF r.state # "open" THEN r
    ELSE
    LET r1 == IF Len(ts2.chunks) > Len(ts.chunks)
              THEN StreamOnChunk(r, ts2.chunks[Len(ts2.chunks)], fails) ELSE r
        r2 == IF Len(ts2.completed) > Len(ts.completed)
              THEN StreamOnComplete(r1, fails) ELSE r1
    IN  IF Len(ts2.errors) > Len(ts.errors)
        THEN StreamOnError(r2, ts2.errors[Len(ts2.errors)], fails) ELSE r2

Responded(fails) ==
    [t \in Turns |-> Respond(responses[t], turns[t], turns'[t], fails)]

Init ==
    /\ client = "null"
    /\ sessions = <<>>
    /\ turns = [t \in Turns |-> NewTurn]
    /\ ops = [o \in Ops |-> NewOp]
    /\ now = 0
    /\ handles = 0
    /\ emitted = 0
    /\ lastDelete = [sessionId |-> NoId, result |-> FALSE,
                     session |-> NoHandle, destroyed |-> FALSE]
    /\ deleted = {}
    /\ send = NewSend
    /\ outputDir = [f \in FileNames |-> 0]
    /\ watchers = [t \in Turns |-> NewWatcher]
    /\ responses = [t \in Turns |-> NewResponse]
    /\ shutdown = [pc |-> "none", handles |-> 0]

\* Date.now() advances
Tick ==
    /\ now < MaxClock
    /\ now' = now + 1
    /\ UNCHANGED <<client, sessions, turns, ops, handles, emitted, lastDelete,
                   deleted, send, outputDir, watchers, responses, shutdown>>

\* ------------------------------------------------------ sendPromptStreaming
\* Lines after `await this.initialize()` up to the next await: resume the
\* registered session and run the executor, or generate an identifier and
\* call client.createSession.
TurnAfterInit(t, ts, rnd, sendThrows) ==
    IF Known(ts.sessionId)
    THEN /\ sessions' = [sessions EXCEPT ![ts.sessionId].messageCount = @ + 1]
         /\ turns' = [turns EXCEPT ![t] =
                Executor([ts EXCEPT !.session = sessions[ts.sessionId].session,
                                    !.currentSessionId = ts.sessionId],
                         sendThrows)]
    ELSE /\ turns' = [turns EXCEPT ![t] =
                [ts EXCEPT !.pc = "awaitCreate",
                           !.currentSessionId = SessionId(now, rnd)]]
         /\ UNCHANGED sessions

\* sendPromptStreaming(prompt, model, onChunk, onComplete, onError, sessionId)
\* up to its first await that waits: initialize() creates the client and
\* awaits start() when there is none, and returns at once otherwise.
SendPromptStreaming(t, prompt, sessionId, rnd, sendThrows) ==
    /\ turns[t].pc = "none"
    /\ IF t = 1 THEN TRUE ELSE turns[t - 1].pc # "none"
    /\ LET ts == [NewTurn EXCEPT !.prompt = prompt, !.sessionId = sessionId,
                                 !.afterDelete = sessionId \in deleted,
                                 !.promise = Pending]
       IN  IF client = "null"
           THEN /\ client' = "starting"
                /\ turns' = [turns EXCEPT ![t] = [ts EXCEPT !.pc = "awaitStart"]]
                /\ UNCHANGED sessions
           ELSE /\ TurnAfterInit(t, ts, rnd, sendThrows)
                /\ UNCHANGED client
    /\ UNCHANGED <<ops, now, handles, emitted, lastDelete, deleted, send,
                   outputDir, watchers, shutdown>>

\* await this.client.start() returns (ping's failure is swallowed)
TurnStartOk(t, rnd, sendThrows) ==
    /\ turns[t].pc = "awaitStart"
    /\ client' = "started"
    /\ TurnAfterInit(t, turns[t], rnd, sendThrows)
    /\ \E fails \in BOOLEAN : responses' = Responded(fails)
    /\ UNCHANGED <<ops, now, handles, emitted, lastDelete, deleted, send,
                   outputDir, watchers, shutdown>>

\* await this.client.start() throws: this.client stays set
TurnStartFail(t, thr) ==
    /\ turns[t].pc = "awaitStart"
    /\ client' = "failed"
    /\ turns' = [turns EXCEPT ![t] = OuterCatch(@, thr)]
    /\ \E fails \in BOOLEAN : responses' = Responded(fails)
    /\ UNCHANGED <<sessions, ops, now, handles, emitted, lastDelete, deleted, send,
                   outputDir, watchers, shutdown>>

\* await this.client.createSession(...) returns a new handle
TurnCreateOk(t, sendThrows) ==
    /\ turns[t].pc = "awaitCreate"
    /\ handles' = handles + 1
    /\ sessions' = SessionsSet(turns[t].currentSessionId, handles + 1, 1)
    /\ turns' = [turns EXCEPT ![t] =
            Executor([@ EXCEPT !.session = handles + 1], sendThrows)]
    /\ \E fails \in BOOLEAN : responses' = Responded(fails)
    /\ UNCHANGED <<client, ops, now, emitted, lastDelete, deleted, send,
                   outputDir, watchers, shutdown>>

\* await this.client.createSession(...) throws
TurnCreateFail(t, thr) ==
    /\ turns[t].pc = "awaitCreate"
    /\ turns' = [turns EXCEPT ![t] = OuterCatch(@, thr)]
    /\ \E fails \in BOOLEAN : responses' = Responded(fails)
    /\ UNCHANGED <<client, sessions, ops, now, handles, emitted, lastDelete,
                   deleted, send, outputDir, watchers, shutdown>>

\* The assistant emits ev on handle h: every listener registered on h runs.
Emit(h, ev, thr) ==
    /\ \E t \in Turns : turns[t].listening /\ turns[t].session = h
    /\ emitted' = emitted + 1
    /\ turns' = [t \in Turns |->
            IF turns[t].listening /\ turns[t].session = h
            THEN Listener(turns[t], ev, thr) ELSE turns[t]]
    /\ \E fails \in BOOLEAN : responses' = Responded(fails)
    /\ UNCHANGED <<client, sessions, ops, now, handles, lastDelete, deleted, send,
                   outputDir, watchers, shutdown>>

\* The 2 minute timer of turn t expires.
Timeout(t, thr) ==
    /\ turns[t].timeoutId = "armed"
    /\ turns' = [turns EXCEPT ![t] = TimeoutCallback(@, thr)]
    /\ \E fails \in BOOLEAN : responses' = Responded(fails)
    /\ UNCHANGED <<client, sessions, ops, now, handles, emitted, lastDelete,
                   deleted, send, outputDir, watchers, shutdown>>

\* ------------------------------------------------- POST /api/chat/stream
\* app.post("/api/chat/stream") up to its await: a request without a prompt
\* is answered 400; otherwise the handler opens the event stream, writes the
\* processing message and calls sendPromptStreaming without a sessionId, so
\* that no callback runs before the first await.
PostChatStream(t, prompt, rnd, sendThrows) ==
    /\ responses[t].state = "none"
    /\ IF prompt = <<>>
       THEN /\ turns[t].pc = "none"
            /\ IF t = 1 THEN TRUE ELSE turns[t - 1].pc # "none"
            /\ responses' = [responses EXCEPT ![t].state = "badRequest"]
            /\ UNCHANGED <<client, sessions, turns, ops, now, handles, emitted,
                           lastDelete, deleted, send, outputDir, watchers, shutdown>>
       ELSE /\ SendPromptStreaming(t, prompt, NoId, rnd, sendThrows)
            /\ responses' = [responses EXCEPT ![t] =
                   [NewResponse EXCEPT
                       !.state = "open",
                       !.written = <<Message("processing", <<>>)>>]]

\* res.on("close"): the client has disconnected
ResClose(t) ==
    /\ responses[t].state = "open"
    /\ ~responses[t].destroyed
    /\ responses' = [responses EXCEPT ![t] =
           EndStream([@ EXCEPT !.destroyed = TRUE])]
    /\ UNCHANGED <<client, sessions, turns, ops, now, handles, emitted,
                   lastDelete, deleted, send, outputDir, watchers, shutdown>>

\* The keepalive interval fires and its res.write throws.
KeepaliveError(t) ==
    /\ responses[t].state = "open"
    /\ ~responses[t].streamEnded /\ ~responses[t].destroyed
    /\ responses' = [responses EXCEPT ![t] = EndStream(@)]
    /\ UNCHANGED <<client, sessions, turns, ops, now, handles, emitted,
                   lastDelete, deleted, send, outputDir, watchers, shutdown>>

\* await copilotService.sendPromptStreaming(...) throws: the promise of the
\* turn is rejected and the handler's catch block runs.
StreamCatch(t, fails) ==
    /\ responses[t].state = "open"
    /\ ~responses[t].caught
    /\ turns[t].promise.state = "rejected"
    /\ responses' = [responses EXCEPT ![t] =
           StreamCatchBlock(@, turns[t].promise.value, fails)]
    /\ UNCHANGED <<client, sessions, turns, ops, now, handles, emitted,
                   lastDelete, deleted, send, outputDir, watchers, shutdown>>

\* ------------------------------------------------------------ the registry
\* createNewSession after `await this.initialize()`: generate the identifier
\* and call client.createSession.
OpAfterInit(o, os, rnd) ==
    ops' = [ops EXCEPT ![o] =
        [os EXCEPT !.pc = "awaitCreate", !.newId = SessionId(now, rnd),
                   !.calls = @ + 1]]

\* await this.initialize() in createNewSession
OpInitialize(o, os, rnd) ==
    IF client = "null"
    THEN /\ client' = "starting"
         /\ ops' = [ops EXCEPT ![o] = [os EXCEPT !.pc = "awaitStart"]]
    ELSE /\ OpAfterInit(o, os, rnd)
         /\ UNCHANGED client

\* createNewSession(model)
CreateNewSession(o, rnd) ==
    /\ ops[o].pc = "none"
    /\ IF o = 1 THEN TRUE ELSE ops[o - 1].pc # "none"
    /\ OpInitialize(o, [NewOp EXCEPT !.kind = "createNewSession"], rnd)
    /\ UNCHANGED <<sessions, turns, now, handles, emitted, lastDelete, deleted, send,
                   outputDir, watchers, responses, shutdown>>

\* getOrCreateSession(sessionId, model)
GetOrCreateSession(o, sessionId, rnd) ==
    /\ ops[o].pc = "none"
    /\ IF o = 1 THEN TRUE ELSE ops[o - 1].pc # "none"
    /\ LET os == [NewOp EXCEPT !.kind = "getOrCreateSession",
                               !.sessionId = sessionId,
                               !.known = Known(sessionId),
                               !.afterDelete = sessionId \in deleted]
       IN  IF Known(sessionId)
           THEN /\ ops' = [ops EXCEPT ![o] =
                       [os EXCEPT !.pc = "done", !.result = sessionId]]
                /\ UNCHANGED client
           ELSE OpInitialize(o, os, rnd)
    /\ UNCHANGED <<sessions, turns, now, handles, emitted, lastDelete, deleted, send,
                   outputDir, watchers, responses, shutdown>>

\* await this.client.start() returns in createNewSession
OpStartOk(o, rnd) ==
    /\ ops[o].pc = "awaitStart"
    /\ client' = "started"
    /\ OpAfterInit(o, ops[o], rnd)
    /\ UNCHANGED <<sessions, turns, now, handles, emitted, lastDelete, deleted, send,
                   outputDir, watchers, responses, shutdown>>

\* await this.client.start() throws in createNewSession
OpStartFail(o) ==
    /\ ops[o].pc = "awaitStart"
    /\ client' = "failed"
    /\ ops' = [ops EXCEPT ![o] =
            [@ EXCEPT !.pc = "failed", !.error = AdapterError]]
    /\ UNCHANGED <<sessions, turns, now, handles, emitted, lastDelete, deleted, send,
                   outputDir, watchers, responses, shutdown>>

\* await this.client.createSession(...) returns in createNewSession
OpCreateOk(o) ==
    /\ ops[o].pc = "awaitCreate"
    /\ handles' = handles + 1
    /\ sessions' = SessionsSet(ops[o].newId, handles + 1, 0)
    /\ ops' = [ops EXCEPT ![o] =
            [@ EXCEPT !.pc = "done", !.result = ops[o].newId,
                      !.added = IF ops[o].newId \in DOMAIN sessions
                                THEN 0 ELSE 1]]
    /\ UNCHANGED <<client, turns, now, emitted, lastDelete, deleted, send,
                   outputDir, watchers, responses, shutdown>>

\* A createNewSession that registers its identifier before createSession
\* throws.
OpCreateFail_Registering(o) ==
    /\ ops[o].pc = "awaitCreate"
    /\ sessions' = SessionsSet(ops[o].newId, handles, 0)
    /\ ops' = [ops EXCEPT ![o] =
            [@ EXCEPT !.pc = "failed", !.error = AdapterError]]
    /\ UNCHANGED <<client, turns, now, handles, emitted, lastDelete,
                   deleted, send, outputDir, watchers, responses, shutdown>>

\* await this.client.createSession(...) throws in createNewSession
OpCreateFail(o) ==
    /\ ops[o].pc = "awaitCreate"
    /\ ops' = [ops EXCEPT ![o] =
            [@ EXCEPT !.pc = "failed", !.error = AdapterError]]
    /\ UNCHANGED <<client, sessions, turns, now, handles, emitted, lastDelete,
                   deleted, send, outputDir, watchers, responses, shutdown>>

\* deleteSession(sessionId)
DeleteSession(sessionId) ==
    /\ IF sessionId \in DOMAIN sessions
       THEN /\ sessions' = [k \in DOMAIN sessions \ {sessionId} |-> sessions[k]]
            /\ lastDelete' = [sessionId |-> sessionId, result |-> TRUE,
                              session |-> sessions[sessionId].session,
                              destroyed |-> FALSE]
            /\ deleted' = deleted \cup {sessionId}
       ELSE /\ lastDelete' = [sessionId |-> sessionId, result |-> FALSE,
                              session |-> NoHandle, destroyed |-> FALSE]
            /\ UNCHANGED <<sessions, deleted>>
    /\ UNCHANGED <<client, turns, ops, now, handles, emitted, send, outputDir, watchers, responses, shutdown>>

\* --------------------------------------------------------------- sendPrompt
\* session.on((event) => { ... }) of sendPrompt: it reads event.type and
\* event.data.deltaContent / content / message only, and strips nothing.
SendListener(c, ev) ==
    LET d == ev.data
        text == IF ev.type = "assistant.message_delta"
                THEN c.fullResponse \o d.deltaContent
                ELSE IF ev.type = "assistant.message" THEN d.content
                ELSE c.fullResponse
        c1 == [c EXCEPT
                 !.fullResponse = text,
                 !.chunks = IF ev.type = "assistant.message_delta"
                            THEN Append(@, d.deltaContent) ELSE @]
    IN  IF ev.type = "session.idle"
        THEN Resolve([c1 EXCEPT !.receivedIdle = TRUE], text)
        ELSE IF ev.type = "error"
        THEN Reject(c1, FirstTruthy(<<d.message, UnknownError>>))
        ELSE c1

\* sendPrompt(prompt, model, streaming, sessionId) up to its first await
\* that waits.  The sessionId argument is never read.
SendPrompt(prompt, sessionId) ==
    /\ send.pc = "none"
    /\ LET c == [NewSend EXCEPT !.prompt = prompt, !.sessionId = sessionId,
                                !.promise = Pending]
       IN  IF client = "null"
           THEN /\ client' = "starting"
                /\ send' = [c EXCEPT !.pc = "awaitStart"]
           ELSE /\ send' = [c EXCEPT !.pc = "awaitCreate"]
                /\ UNCHANGED client
    /\ UNCHANGED <<sessions, turns, ops, now, handles, emitted, lastDelete,
                   deleted, outputDir, watchers, responses, shutdown>>

\* await this.client.start() returns in sendPrompt
SendStartOk ==
    /\ send.pc = "awaitStart"
    /\ client' = "started"
    /\ send' = [send EXCEPT !.pc = "awaitCreate"]
    /\ UNCHANGED <<sessions, turns, ops, now, handles, emitted, lastDelete,
                   deleted, outputDir, watchers, responses, shutdown>>

\* await this.client.start() throws in sendPrompt
SendStartFail ==
    /\ send.pc = "awaitStart"
    /\ client' = "failed"
    /\ send' = Reject([send EXCEPT !.pc = "failed"], AdapterError)
    /\ UNCHANGED <<sessions, turns, ops, now, handles, emitted, lastDelete,
                   deleted, outputDir, watchers, responses, shutdown>>

\* A sendPrompt that resumes the registered session of its sessionId
\* argument, as sendPromptStreaming does.
SendCreateOk_Resuming ==
    /\ send.pc = "awaitCreate"
    /\ IF Known(send.sessionId)
       THEN /\ send' = [send EXCEPT !.pc = "sending",
                             !.session = sessions[send.sessionId].session]
            /\ sessions' = [sessions EXCEPT
                               ![send.sessionId].messageCount = @ + 1]
            /\ UNCHANGED handles
       ELSE /\ handles' = handles + 1
            /\ send' = [send EXCEPT !.pc = "sending", !.session = handles + 1]
            /\ UNCHANGED sessions
    /\ UNCHANGED <<client, turns, ops, now, emitted, lastDelete,
                   deleted, outputDir, watchers, responses, shutdown>>

\* await this.client.createSession(...) returns in sendPrompt: the executor
\* registers the listener and calls session.sendAndWait
SendCreateOk ==
    /\ send.pc = "awaitCreate"
    /\ handles' = handles + 1
    /\ send' = [send EXCEPT !.pc = "sending", !.session = handles + 1]
    /\ UNCHANGED <<client, sessions, turns, ops, now, emitted, lastDelete,
                   deleted, outputDir, watchers, responses, shutdown>>

\* await this.client.createSession(...) throws in sendPrompt
SendCreateFail ==
    /\ send.pc = "awaitCreate"
    /\ send' = Reject([send EXCEPT !.pc = "failed"], AdapterError)
    /\ UNCHANGED <<client, sessions, turns, ops, now, handles, emitted,
                   lastDelete, deleted, outputDir, watchers, responses, shutdown>>

\* The assistant emits ev on the session of the sendPrompt call.
SendEmit(ev) ==
    /\ send.pc \in {"sending", "sent"}
    /\ send' = [SendListener(send, ev) EXCEPT !.events = @ + 1]
    /\ UNCHANGED <<client, sessions, turns, ops, now, handles, emitted,
                   lastDelete, deleted, outputDir, watchers, responses, shutdown>>

\* sendAndWait resolves: .then(() => { if (!receivedIdle) setTimeout(...) })
SendAndWaitOk ==
    /\ send.pc = "sending"
    /\ send' = [send EXCEPT
                  !.pc = "sent",
                  !.idleTimer = IF send.receivedIdle THEN "none" ELSE "armed"]
    /\ UNCHANGED <<client, sessions, turns, ops, now, handles, emitted,
                   lastDelete, deleted, outputDir, watchers, responses, shutdown>>

\* sendAndWait rejects: .catch((error) => reject(error))
SendAndWaitFail ==
    /\ send.pc = "sending"
    /\ send' = Reject([send EXCEPT !.pc = "sent"], AdapterError)
    /\ UNCHANGED <<client, sessions, turns, ops, now, handles, emitted,
                   lastDelete, deleted, outputDir, watchers, responses, shutdown>>

\* The 1 second timer started after sendAndWait expires.
SendIdleTimeout ==
    /\ send.idleTimer = "armed"
    /\ send' = IF send.receivedIdle
               THEN [send EXCEPT !.idleTimer = "fired"]
               ELSE Resolve([send EXCEPT !.idleTimer = "fired"],
                            send.fullResponse)
    /\ UNCHANGED <<client, sessions, turns, ops, now, handles, emitted,
                   lastDelete, deleted, outputDir, watchers, responses, shutdown>>

\* ------------------------------------------------------- artifact watcher
\* The assistant runtime writes file f: it creates it or modifies it.
WriteFile(f) ==
    /\ outputDir[f] < MaxWrites
    /\ outputDir' = [outputDir EXCEPT ![f] = @ + 1]
    /\ UNCHANGED <<client, sessions, turns, ops, now, handles, emitted,
                   lastDelete, deleted, send, watchers, responses, shutdown>>

\* Turn start: snapshot the listing as the pre-existing files and seed the
\* "already notified" set with them.
WatchStart(t) ==
    /\ watchers[t].state = "none"
    /\ IF t = 1 THEN TRUE ELSE watchers[t - 1].state # "none"
    /\ watchers' = [watchers EXCEPT ![t] =
            [@ EXCEPT !.state = "watching", !.baseline = outputDir,
                      !.notified = Present(outputDir)]]
    /\ UNCHANGED <<client, sessions, turns, ops, now, handles, emitted,
                   lastDelete, deleted, send, outputDir, responses, shutdown>>

\* Announce as Announce does, but without consulting the "already notified"
\* set.
Announce_Unconditionally(w, f) ==
    IF outputDir[f] = 0 THEN w
    ELSE [w EXCEPT
            !.notified = @ \cup {f},
            !.announced = Append(@, f),
            !.rechecked = IF w.baseline[f] > 0 /\ outputDir[f] > w.baseline[f]
                          THEN @ \cup {f} ELSE @,
            !.repeated = IF w.baseline[f] = 0 /\ f \in w.notified
                         THEN @ \cup {f} ELSE @]

\* The watcher examines f: a file of the directory that is not in the
\* "already notified" set is announced and added to the set.
Announce(w, f) ==
    IF outputDir[f] = 0 THEN w
    ELSE [w EXCEPT
            !.notified = @ \cup {f},
            !.announced = IF f \in w.notified THEN @ ELSE Append(@, f),
            !.rechecked = IF w.baseline[f] > 0 /\ outputDir[f] > w.baseline[f]
                          THEN @ \cup {f} ELSE @,
            !.repeated = IF w.baseline[f] = 0 /\ f \in w.notified
                         THEN @ \cup {f} ELSE @]

\* The directory-change watch of turn t reports f.
DirectoryChange(t, f) ==
    /\ watchers[t].state = "watching"
    /\ outputDir[f] > 0
    /\ watchers' = [watchers EXCEPT ![t] = Announce(@, f)]
    /\ UNCHANGED <<client, sessions, turns, ops, now, handles, emitted,
                   lastDelete, deleted, send, outputDir, responses, shutdown>>

\* The watcher examines every file of names, one after the other.
RECURSIVE PollAll(_, _)
PollAll(w, names) ==
    IF names = {} THEN w
    ELSE LET f == CHOOSE x \in names : TRUE
         IN  PollAll(Announce(w, f), names \ {f})

\* Completion of turn t: one final poll of the directory, then the watcher
\* is released.
FinalPoll(t) ==
    /\ watchers[t].state = "watching"
    /\ watchers' = [watchers EXCEPT ![t] =
            [PollAll(@, FileNames) EXCEPT !.state = "released"]]
    /\ UNCHANGED <<client, sessions, turns, ops, now, handles, emitted,
                   lastDelete, deleted, send, outputDir, responses, shutdown>>

\* --------------------------------------------------------------------- stop
\* stop() up to `await this.client.stop()`, or the whole of it when there is
\* no client.  It is called when no start() is pending.
Stop ==
    /\ shutdown.pc = "none"
    /\ client \in {"null", "started", "failed"}
    /\ shutdown' = IF client = "null"
                   THEN [pc |-> "done", handles |-> handles]
                   ELSE [shutdown EXCEPT !.pc = "stopping"]
    /\ UNCHANGED <<client, sessions, turns, ops, now, handles, emitted,
                   lastDelete, deleted, send, outputDir, watchers, responses>>

\* await this.client.stop() returns or throws (the error is logged):
\* this.client = null.  this.sessions is not touched.
StopDone ==
    /\ shutdown.pc = "stopping"
    /\ client' = "null"
    /\ shutdown' = [pc |-> "done", handles |-> handles]
    /\ UNCHANGED <<sessions, turns, ops, now, handles, emitted, lastDelete,
                   deleted, send, outputDir, watchers, responses>>

\* ----------------------------------------------------------- specifications
\* The output directory and the watchers of the turns 1..n.
WatchSteps(n) ==
    \/ \E f \in FileNames : WriteFile(f)
    \/ \E t \in 1..n : WatchStart(t)
    \/ \E t \in 1..n, f \in FileNames : DirectoryChange(t, f)
    \/ \E t \in 1..n : FinalPoll(t)

\* The calls of sendPromptStreaming 1..n after their first await, up to the
\* executor; throws: which callbacks may throw.
TurnContinueSteps(n, throws) ==
    \/ \E t \in 1..n, rnd \in Suffixes, sendThrows \in BOOLEAN :
          TurnStartOk(t, rnd, sendThrows)
    \/ \E t \in 1..n, thr \in throws : TurnStartFail(t, thr)
    \/ \E t \in 1..n, sendThrows \in BOOLEAN : TurnCreateOk(t, sendThrows)
    \/ \E t \in 1..n, thr \in throws : TurnCreateFail(t, thr)

\* The calls of sendPromptStreaming 1..n up to the executor, made by a
\* caller that is not the HTTP handler.
TurnSetupSteps(n, prompts, throws) ==
    \/ \E t \in 1..n, p \in prompts, id \in SessionIdArgs \ {UnknownId},
          rnd \in Suffixes, sendThrows \in BOOLEAN :
          SendPromptStreaming(t, p, id, rnd, sendThrows) /\ UNCHANGED responses
    \/ TurnContinueSteps(n, throws)

\* The requests 1..n of POST /api/chat/stream.
HttpSteps(n, prompts) ==
    \/ \E t \in 1..n, p \in prompts \cup {<<>>}, rnd \in Suffixes,
          sendThrows \in BOOLEAN : PostChatStream(t, p, rnd, sendThrows)
    \/ \E t \in 1..n : ResClose(t)
    \/ \E t \in 1..n : KeepaliveError(t)
    \/ \E t \in 1..n, fails \in BOOLEAN : StreamCatch(t, fails)

\* The events and timers of the streaming turns: at most maxEvents events.
TurnEventSteps(n, events, throws, maxEvents) ==
    \/ \E h \in 1..handles, ev \in events, thr \in throws :
          emitted < maxEvents /\ Emit(h, ev, thr)
    \/ \E t \in 1..n, thr \in throws : Timeout(t, thr)

\* The stop() call.
StopSteps ==
    \/ Stop
    \/ StopDone

\* The calls of createNewSession / getOrCreateSession 1..n and deleteSession.
RegistrySteps(n) ==
    \/ \E o \in 1..n, rnd \in Suffixes : CreateNewSession(o, rnd)
    \/ \E o \in 1..n, id \in SessionIdArgs, rnd \in Suffixes :
          GetOrCreateSession(o, id, rnd)
    \/ \E o \in 1..n, rnd \in Suffixes : OpStartOk(o, rnd)
    \/ \E o \in 1..n : OpStartFail(o)
    \/ \E o \in 1..n : OpCreateOk(o)
    \/ \E o \in 1..n : OpCreateFail(o)
    \/ \E id \in DOMAIN sessions \cup {UnknownId} : DeleteSession(id)

\* The sendPrompt call, with at most maxEvents events.
SendSteps(prompts, events, maxEvents) ==
    \/ \E p \in prompts, id \in SessionIdArgs \ {UnknownId} : SendPrompt(p, id)
    \/ SendStartOk
    \/ SendStartFail
    \/ SendCreateOk
    \/ SendCreateFail
    \/ \E ev \in events : send.events < maxEvents /\ SendEmit(ev)
    \/ SendAndWaitOk
    \/ SendAndWaitFail
    \/ SendIdleTimeout

\* One prompt, and one event of each kind the listener distinguishes; the
\* text of the delta and of the full message is not an echo of the prompt.
X == <<"x">>
Y == <<"y">>
MainPrompts == {X}
MainEvents ==
    {Ev("assistant.message_delta", [NoData EXCEPT !.deltaContent = Y]),
     Ev("assistant.message", [NoData EXCEPT !.content = Y]),
     Ev("session.idle", NoData),
     Ev("tool.output", [NoData EXCEPT !.output = X]),
     Ev("assistant.status", [NoData EXCEPT !.message = X]),
     Ev("error", [NoData EXCEPT !.message = <<"e">>]),
     Ev("other", [NoData EXCEPT !.text = X])}

\* The whole service.
Next ==
    \/ Tick
    \/ TurnSetupSteps(MaxTurns, MainPrompts, Throws)
    \/ TurnEventSteps(MaxTurns, MainEvents, Throws, MaxEvents)
    \/ RegistrySteps(MaxOps)
    \/ SendSteps(MainPrompts, MainEvents, MaxEvents)
    \/ WatchSteps(MaxTurns)
    \/ HttpSteps(MaxTurns, MainPrompts)
    \/ StopSteps
Spec == Init /\ [][Next]_vars

\* The streaming turns alone.  Neither the listener nor the timer reads the
\* clock or the registry, so the clock stands still here and identifiers
\* differ by their suffix.
NextTurn ==
    \/ TurnSetupSteps(MaxTurns, MainPrompts, Throws)
    \/ TurnEventSteps(MaxTurns, MainEvents, Throws, MaxEvents)
SpecTurn == Init /\ [][NextTurn]_vars

\* Streaming turns one after another, so that a later turn can resume the
\* session of an earlier one.
NextReuse ==
    \/ TurnSetupSteps(MaxReuseTurns, MainPrompts, Throws)
    \/ TurnEventSteps(MaxReuseTurns, MainEvents, Throws, MaxEvents)
SpecReuse == Init /\ [][NextReuse]_vars

\* The registry alone: no events arrive.
NextReg ==
    \/ Tick
    \/ TurnSetupSteps(MaxTurns, MainPrompts, {NoThrow})
    \/ RegistrySteps(MaxOps)
SpecReg == Init /\ [][NextReg]_vars

\* The registry calls beside one streaming turn, which fills the registry.
\* A failing call reads no clock, so the clock stands still.
NextOps ==
    \/ TurnSetupSteps(1, MainPrompts, {NoThrow})
    \/ RegistrySteps(MaxOps)
SpecOps == Init /\ [][NextOps]_vars

\* Prompts and texts of the echo filter: every string over a case pair and
\* a blank, up to a length.
Alphabet == {"a", "A", " "}
Strings(n) == UNION {[1..k -> Alphabet] : k \in 0..n}
EchoPrompts == {p \in Strings(MaxPromptLen) : Trim(p) # <<>>}
EchoContents == Strings(MaxContentLen) \ {<<>>}
DeltaEvents ==
    {Ev("assistant.message_delta", [NoData EXCEPT !.deltaContent = c]) :
        c \in EchoContents}
MessageEvents ==
    {Ev("assistant.message", [NoData EXCEPT !.content = c]) : c \in EchoContents}
IdleEvent == Ev("session.idle", NoData)
EchoEvents == DeltaEvents \cup MessageEvents \cup {IdleEvent}

\* One streaming turn under every prompt and every split of the response.
NextEcho ==
    \/ TurnSetupSteps(1, EchoPrompts, {NoThrow})
    \/ TurnEventSteps(1, EchoEvents, {NoThrow}, MaxEchoEvents)
SpecEcho == Init /\ [][NextEcho]_vars

\* One streaming turn that receives deltas only, under an empty prompt, a
\* prompt one delta can echo, one that takes two deltas, and one that ends
\* with a blank.
DeltaPrompts == {<<>>, <<"a">>, <<"a", "a">>, <<"a", " ">>}
ShortDeltaEvents ==
    {Ev("assistant.message_delta", [NoData EXCEPT !.deltaContent = c]) :
        c \in Strings(MaxDeltaLen) \ {<<>>}}
NextDelta ==
    \/ TurnSetupSteps(1, DeltaPrompts, {NoThrow})
    \/ TurnEventSteps(1, ShortDeltaEvents, {NoThrow}, MaxEchoEvents)
SpecDelta == Init /\ [][NextDelta]_vars

\* One streaming turn that receives deltas over two letters and a blank,
\* under a prompt of one letter and a prompt of two: most responses do not
\* begin with the prompt.
PassAlphabet == {"a", "b", " "}
PassPrompts == {<<"a">>, <<"a", "b">>}
PassEvents ==
    {Ev("assistant.message_delta", [NoData EXCEPT !.deltaContent = c]) :
        c \in UNION {[1..k -> PassAlphabet] : k \in 1..MaxPassLen}}
NextPass ==
    \/ TurnSetupSteps(1, PassPrompts, {NoThrow})
    \/ TurnEventSteps(1, PassEvents, {NoThrow}, MaxPassEvents)
SpecPass == Init /\ [][NextPass]_vars

\* Events for the classification of the listener: the type name under each
\* of the three discriminator keys, an unknown type name in front of a known
\* one, type names in another letter case, and events of no known type with
\* a text, without content and with a content that is not a string.
ClassEvents ==
    {Ev("delta", [NoData EXCEPT !.deltaContent = Y]),
     [type |-> "", event |-> "delta", kind |-> "",
      data |-> [NoData EXCEPT !.deltaContent = Y]],
     [type |-> "", event |-> "", kind |-> "done", data |-> NoData],
     [type |-> "x", event |-> "delta", kind |-> "",
      data |-> [NoData EXCEPT !.deltaContent = Y]],
     Ev("session.idle", NoData),
     Ev("Session.Idle", NoData),
     Ev("error", [NoData EXCEPT !.error = <<"e">>]),
     Ev("ERROR", [NoData EXCEPT !.error = <<"e">>]),
     Ev("other", [NoData EXCEPT !.text = X]),
     Ev("other", NoData),
     Ev("other", [NoData EXCEPT !.content = Object, !.text = X])}

\* One streaming turn under these events.
NextClass ==
    \/ TurnSetupSteps(1, MainPrompts, Throws)
    \/ TurnEventSteps(1, ClassEvents, Throws, MaxEvents)
SpecClass == Init /\ [][NextClass]_vars

\* The artifact watchers alone.
NextWatch == WatchSteps(MaxTurns)
SpecWatch == Init /\ [][NextWatch]_vars

\* One sendPrompt call under every prompt and response.
NextSend == SendSteps(EchoPrompts, EchoEvents, MaxEchoEvents)
SpecSend == Init /\ [][NextSend]_vars

\* One sendPrompt call beside one streaming turn, whose session the call
\* can name in its sessionId argument.
NextSendReg ==
    \/ TurnSetupSteps(1, MainPrompts, {NoThrow})
    \/ SendSteps(MainPrompts, MainEvents, MaxEvents)
SpecSendReg == Init /\ [][NextSendReg]_vars

\* One sendPrompt call, under either of two prompts, with fair scheduling.
\* The event loop runs a timer that is armed, and client.start() and
\* client.createSession settle; the assistant need not emit an event, and
\* sendAndWait need not settle.
NextSendFair == SendSteps({X, Y}, MainEvents, MaxEvents)
SpecSendFair ==
    /\ Init
    /\ [][NextSendFair]_vars
    /\ WF_vars(SendIdleTimeout)
    /\ WF_vars(SendStartOk \/ SendStartFail)
    /\ WF_vars(SendCreateOk \/ SendCreateFail)

\* The streaming endpoint: one request and its turn.  A request passes no
\* sessionId, so each request has a session of its own and shares no
\* listener with another.  The closures of the handler catch what they
\* throw, so no callback throws.
NextHttp ==
    \/ HttpSteps(1, MainPrompts)
    \/ TurnContinueSteps(1, {NoThrow})
    \/ TurnEventSteps(1, MainEvents, {NoThrow}, MaxEvents)
SpecHttp == Init /\ [][NextHttp]_vars

\* Streaming turns and a stop() call: a turn made after stop() can name a
\* session of a turn made before it.
NextStop ==
    \/ TurnSetupSteps(MaxReuseTurns, MainPrompts, {NoThrow})
    \/ StopSteps
SpecStop == Init /\ [][NextStop]_vars

\* ------------------------------------------------------------------ claims
Terminal(ts) == ts.completed # <<>> \/ ts.errors # <<>>

\* C1: every streaming turn that reached its executor has exactly one of
\* onComplete and onError invoked, and exactly once: never two terminal
\* calls, and one call once its safety timer is no longer pending.
C1_ExactlyOneTerminalCallback ==
    \A t \in Turns :
        turns[t].pc = "active" =>
            /\ Len(turns[t].completed) + Len(turns[t].errors) <= 1
            /\ turns[t].timeoutId # "armed" =>
                   Len(turns[t].completed) + Len(turns[t].errors) = 1

\* C2: once onComplete has been invoked for a turn, no later step invokes
\* onError for it.
C2_NoErrorAfterComplete ==
    [][\A t \in Turns :
          turns[t].completed # <<>> => turns'[t].errors = turns[t].errors]_vars

\* C3: once onError has been invoked for a turn, no later completion event
\* and no expiry of the safety timer invokes onComplete for it.
C3_NoCompleteAfterError ==
    [][\A t \in Turns :
          turns[t].errors # <<>> =>
              turns'[t].completed = turns[t].completed]_vars

\* C3 witness: a completion event reached a turn that had already errored.
C3_Witness ==
    \E t \in Turns :
        /\ turns[t].errors # <<>>
        /\ turns[t].sawCompletion
        /\ turns[t].completed = <<>>

\* C4: when the safety timer expires on a turn that received neither a
\* completion nor an error event, onComplete has been invoked exactly once
\* with the turn's session id, the promise is resolved with that id, onError
\* has not been invoked, and no chunk is delivered afterwards.
C4_TimeoutCompletes ==
    /\ [](\A t \in Turns :
            (turns[t].timeoutId = "fired" /\ ~turns[t].sawCompletion
                 /\ ~turns[t].sawError) =>
                /\ turns[t].completed = <<turns[t].currentSessionId>>
                /\ turns[t].promise =
                       [state |-> "resolved",
                        value |-> turns[t].currentSessionId]
                /\ turns[t].errors = <<>>)
    /\ [][\A t \in Turns :
            turns[t].timeoutId = "fired" =>
                turns'[t].chunks = turns[t].chunks]_vars

\* C5: after the terminal callback of a turn (onComplete or onError) has
\* been invoked, no event makes the listener invoke onChunk for that turn.
C5_NoChunkAfterTerminal ==
    [][\A t \in Turns :
          Terminal(turns[t]) => turns'[t].chunks = turns[t].chunks]_vars

\* C5 witness: an event carrying text reached a turn after its terminal
\* callback.
C5_Witness == \E t \in Turns : Terminal(turns[t]) /\ turns[t].lateText

\* text begins with a case/whitespace-insensitive copy of prompt
EchoOf(text, prompt) ==
    StartsWith(ToLowerCase(Trim(text)), ToLowerCase(Trim(prompt)))

\* The text T that follows the echoed prompt in text, nothing of it removed
AfterEcho(text, prompt) == Substring(TrimStart(text), Len(Trim(prompt)))

\* C6: in a turn that has received only deltas and has not ended, whenever
\* the deltas delivered so far concatenate to an echo of the prompt followed by T, the
\* texts passed to onChunk concatenate to T with its leading whitespace
\* trimmed (no fragment of the prompt emitted, nothing of T lost).
C6_DeltaEchoStripped ==
    \A t \in Turns :
        (/\ turns[t].pc = "active"
         /\ ~turns[t].hasCompleted /\ ~turns[t].hasError
         /\ ~turns[t].sawOther /\ ~turns[t].sawError /\ ~turns[t].sawCompletion
         /\ turns[t].deltaText # <<>>
         /\ EchoOf(turns[t].deltaText, turns[t].prompt)) =>
            Concat(turns[t].chunks) =
                TrimStart(AfterEcho(turns[t].deltaText, turns[t].prompt))

\* C7: a full-message event that reaches an active turn without deltas and
\* whose text is an echo of the prompt followed by T passes exactly one
\* chunk, T with only its leading whitespace trimmed, to onChunk, and no
\* chunk when that remainder is empty.
C7_MessageEchoStripped ==
    [][\A ev \in MessageEvents, t \in Turns :
          (/\ Emit(turns[t].session, ev, NoThrow)
           /\ turns[t].listening
           /\ ~turns[t].hasCompleted /\ ~turns[t].hasError
           /\ ~turns[t].hasReceivedDeltas
           /\ EchoOf(ev.data.content, turns[t].prompt)) =>
              LET rest == TrimStart(AfterEcho(ev.data.content, turns[t].prompt))
              IN  turns'[t].chunks =
                      turns[t].chunks \o
                          (IF rest # <<>> THEN <<rest>> ELSE <<>>)]_vars

\* C8: when sendPrompt resolves and the assistant's text is an echo of the
\* prompt followed by T, the value it resolves with has the prompt prefix
\* removed (T, with or without its surrounding whitespace trimmed).
C8_SendPromptEchoStripped ==
    [][(/\ send.promise.state = "pending"
        /\ send'.promise.state = "resolved"
        /\ EchoOf(send'.fullResponse, send.prompt)) =>
           LET rest == AfterEcho(send'.fullResponse, send.prompt)
           IN  send'.promise.value \in
                   {rest, TrimStart(rest), TrimEnd(rest), Trim(rest)}]_vars

\* C9: a getOrCreateSession call that has returned issued no createSession
\* call and returned its argument when the argument was registered, and
\* otherwise issued exactly one createSession call and added exactly one
\* entry to the registry.
C9_GetOrCreateAllocation ==
    \A o \in Ops :
        (ops[o].kind = "getOrCreateSession" /\ ops[o].pc = "done") =>
            IF ops[o].known
            THEN ops[o].calls = 0 /\ ops[o].result = ops[o].sessionId
            ELSE ops[o].calls = 1 /\ ops[o].added = 1

\* C10: deleteSession returns false and changes nothing for an id that is
\* not registered, returns true and removes exactly that entry for one that
\* is, and a getOrCreateSession or sendPromptStreaming call made afterwards
\* with the deleted id ends up with a session under another identifier.
C10_DeleteSession ==
    /\ [][\A id \in Ids \cup {UnknownId} :
            DeleteSession(id) =>
                IF id \in DOMAIN sessions
                THEN /\ lastDelete'.result = TRUE
                     /\ DOMAIN sessions' = DOMAIN sessions \ {id}
                     /\ \A k \in DOMAIN sessions' : sessions'[k] = sessions[k]
                ELSE /\ lastDelete'.result = FALSE
                     /\ sessions' = sessions]_vars
    /\ [](\A o \in Ops :
            (/\ ops[o].kind = "getOrCreateSession"
             /\ ops[o].pc = "done"
             /\ ops[o].afterDelete) =>
                ops[o].result # ops[o].sessionId)
    /\ [](\A t \in Turns :
            (turns[t].pc = "active" /\ turns[t].afterDelete) =>
                turns[t].currentSessionId # turns[t].sessionId)

\* C11: a deleteSession call that removed an entry has released the handle
\* of that entry (destroy was called on it).
C11_DeleteReleasesHandle ==
    lastDelete.result => (lastDelete.session # NoHandle /\ lastDelete.destroyed)

\* C12: a getOrCreateSession call with a registered id returns that id and
\* increments the messageCount of its entry by one.
C12_GetOrCreateCounts ==
    [][\A o \in Ops, id \in Ids :
          (Known(id) /\ \E rnd \in Suffixes : GetOrCreateSession(o, id, rnd)) =>
              /\ ops'[o].result = id
              /\ id \in DOMAIN sessions'
              /\ sessions'[id].messageCount = sessions[id].messageCount + 1]_vars

\* Identifiers issued so far: generated by a call, registered, or deleted
Issued == Generated \cup DOMAIN sessions \cup deleted

\* C13: the identifier a call generates for a new session differs from
\* every identifier issued before, deleted ones included, and no step
\* replaces the session of a registered identifier by another one.
C13_IdentifiersUnique ==
    /\ [][\A t \in Turns :
            (turns[t].pc # "awaitCreate" /\ turns'[t].pc = "awaitCreate") =>
                turns'[t].currentSessionId \notin Issued]_vars
    /\ [][\A o \in Ops :
            (ops[o].pc # "awaitCreate" /\ ops'[o].pc = "awaitCreate") =>
                ops'[o].newId \notin Issued]_vars
    /\ [][\A id \in DOMAIN sessions :
            id \in DOMAIN sessions' =>
                sessions'[id].session = sessions[id].session]_vars

\* C14: a full-message event that reaches a turn after delta content has
\* been observed in that turn passes nothing to onChunk: no step that
\* extends the chunks of such a turn is the delivery of a full message.
C14_MessageDroppedAfterDelta ==
    [][\A t \in Turns :
          (/\ turns[t].listening
           /\ turns[t].deltas # <<>>
           /\ turns'[t].chunks # turns[t].chunks) =>
              \A ev \in {e \in MainEvents : IsMessageType(EventType(e))},
                 thr \in Throws : ~Emit(turns[t].session, ev, thr)]_vars

\* C14 witness: a full message with text reached an active turn that had
\* forwarded a delta.
C14_Witness ==
    \E t \in Turns :
        /\ turns[t].droppedMessage
        /\ turns[t].chunks # <<>>
        /\ turns[t].chunks = turns[t].deltas

\* C15: whatever a delta event makes the listener pass to onChunk is
\* appended to what was passed before and is a stretch of the text of that
\* very delta, so the output follows the order in which the deltas arrived.
C15_DeltasInOrder ==
    [][\A ev \in ShortDeltaEvents, t \in Turns :
          (turns[t].listening /\ Emit(turns[t].session, ev, NoThrow)) =>
              LET c == ev.data.deltaContent IN
              \/ turns'[t].chunks = turns[t].chunks
              \/ \E i \in 1..Len(c) : \E j \in i..Len(c) :
                    turns'[t].chunks =
                        Append(turns[t].chunks, SubSeq(c, i, j))]_vars

\* C15 witness: two deltas reached an active turn and each was forwarded.
C15_Witness ==
    \E t \in Turns :
        /\ Len(turns[t].deltas) >= 2
        /\ Len(turns[t].chunks) >= 2
        /\ ~turns[t].hasCompleted /\ ~turns[t].hasError

\* C16: while a later turn is active on the session of an earlier turn
\* that has terminated, no step invokes onChunk, onComplete or onError of
\* the earlier turn.
C16_TurnsIsolated ==
    [][\A t1 \in Turns, t2 \in Turns :
          (/\ t1 < t2
           /\ Terminal(turns[t1])
           /\ turns[t2].pc = "active" /\ ~Terminal(turns[t2])
           /\ turns[t2].session = turns[t1].session) =>
              /\ turns'[t1].chunks = turns[t1].chunks
              /\ turns'[t1].completed = turns[t1].completed
              /\ turns'[t1].errors = turns[t1].errors]_vars

\* C17: a call that runs initialize() after start() has failed creates and
\* starts the adapter again instead of going on with the failed client.
C17_InitializeRetried ==
    [][(/\ client = "failed"
        /\ \/ \E t \in Turns : turns[t].pc = "none" /\ turns'[t].pc # "none"
           \/ \E o \in Ops : /\ ops[o].pc = "none" /\ ops'[o].pc # "none"
                             /\ ~ops'[o].known
           \/ send.pc = "none" /\ send'.pc # "none") =>
           client' = "starting"]_vars

\* C18: in a turn that has received only deltas and has not ended, when the
\* first delta is exactly the echoed prompt (the echo ends at the delta
\* boundary), nothing of that delta is emitted and the output is the text of
\* the later deltas with its leading whitespace trimmed: for prompt "a" and
\* deltas "a", " a" the output is "a".
C18_EchoAtDeltaBoundary ==
    \A t \in Turns :
        (/\ turns[t].pc = "active"
         /\ ~turns[t].hasCompleted /\ ~turns[t].hasError
         /\ ~turns[t].sawOther /\ ~turns[t].sawError /\ ~turns[t].sawCompletion
         /\ turns[t].deltas # <<>>
         /\ Trim(turns[t].prompt) # <<>>
         /\ ToLowerCase(Trim(Head(turns[t].deltas))) =
                ToLowerCase(Trim(turns[t].prompt))) =>
            Concat(turns[t].chunks) = TrimStart(Concat(Tail(turns[t].deltas)))

\* C19: with an empty prompt, in a turn that has received only deltas and
\* has not ended, the texts passed to onChunk are exactly the texts of the
\* deltas, one chunk per delta, unmodified.
C19_EmptyPromptNoOp ==
    \A t \in Turns :
        (/\ turns[t].pc = "active"
         /\ ~turns[t].hasCompleted /\ ~turns[t].hasError
         /\ ~turns[t].sawOther /\ ~turns[t].sawError /\ ~turns[t].sawCompletion
         /\ turns[t].prompt = <<>>) =>
            turns[t].chunks = turns[t].deltas

\* C20: the notification chunks of a turn's watcher name each file at most
\* once and never a file that was in the directory when the turn began,
\* whether or not it has been modified since.
C20_ArtifactNotifiedOnce ==
    \A t \in Turns :
        LET a == watchers[t].announced IN
        /\ \A i \in DOMAIN a : \A j \in DOMAIN a : a[i] = a[j] => i = j
        /\ \A i \in DOMAIN a : watchers[t].baseline[a[i]] = 0

\* C20 witness: a watcher examined a file it had already announced, and a
\* file of its baseline that was modified during the turn.
C20_Witness ==
    \E t \in Turns :
        /\ watchers[t].announced # <<>>
        /\ watchers[t].repeated # {}
        /\ watchers[t].rechecked # {}

\* a `done` or `error` message
IsTerminalMessage(m) == m.kind \in {"done", "error"}

\* C21: on the streaming endpoint, whatever the outcome of the turn, the
\* response carries at most one terminal message (done or error) and no
\* message follows it: a terminal message is the last one written.
C21_OneTerminalMessage ==
    \A t \in Turns :
        LET w == responses[t].written IN
        \A i \in DOMAIN w : IsTerminalMessage(w[i]) => i = Len(w)

\* C21 witness: an error event reached a turn whose completion had been
\* written to the response, so that onError ran after onComplete.
C21_Witness ==
    \E t \in Turns :
        LET w == responses[t].written IN
        /\ turns[t].completed # <<>> /\ turns[t].errors # <<>>
        /\ w # <<>> /\ w[Len(w)].kind = "done"

\* C22: an error event that reaches an active turn makes the turn errored,
\* invokes onError once with the message carried by the event (its message
\* field, else its error field, else "Unknown error") and rejects the
\* promise of the turn with that same error.
C22_ErrorEventRejects ==
    [][\A t \in Turns :
          \A ev \in {e \in MainEvents : IsErrorType(EventType(e))},
             thr \in Throws :
              (/\ turns[t].listening
               /\ ~turns[t].hasCompleted /\ ~turns[t].hasError
               /\ Emit(turns[t].session, ev, thr)) =>
                  /\ turns'[t].hasError
                  /\ turns'[t].errors = <<ErrorMessage(ev.data)>>
                  /\ turns'[t].promise =
                         [state |-> "rejected",
                          value |-> ErrorMessage(ev.data)]]_vars

\* a is a proper prefix of p
ProperPrefix(a, p) == Len(a) < Len(p) /\ StartsWith(p, a)

\* C23: while the echo filter of an active turn is unresolved and the
\* accumulated delta text, trimmed and case-folded, is a non-empty proper
\* prefix of the prompt, trimmed and case-folded, nothing has been passed to
\* onChunk: the text is withheld.
C23_PrefixWithheld ==
    \A t \in Turns :
        (/\ turns[t].pc = "active"
         /\ ~turns[t].hasCompleted /\ ~turns[t].hasError
         /\ ~turns[t].sawOther /\ ~turns[t].sawError /\ ~turns[t].sawCompletion
         /\ ~turns[t].promptStripped
         /\ Trim(turns[t].accumulatedContent) # <<>>
         /\ ProperPrefix(ToLowerCase(Trim(turns[t].accumulatedContent)),
                         ToLowerCase(Trim(turns[t].prompt)))) =>
            turns[t].chunks = <<>>

\* C24: in an active turn that has received only deltas whose text does
\* not begin with an echo of the prompt, the texts passed to onChunk
\* concatenate to the texts of the deltas, in order, and the filter is
\* resolved once the accumulated text is longer than twice the prompt.
C24_NoEchoPassThrough ==
    \A t \in Turns :
        (/\ turns[t].pc = "active"
         /\ ~turns[t].hasCompleted /\ ~turns[t].hasError
         /\ ~turns[t].sawOther /\ ~turns[t].sawError /\ ~turns[t].sawCompletion
         /\ turns[t].deltas # <<>>
         /\ ~EchoOf(turns[t].deltaText, turns[t].prompt)) =>
            /\ Concat(turns[t].chunks) = Concat(turns[t].deltas)
            /\ Len(turns[t].deltaText) > 2 * Len(turns[t].prompt) =>
                   turns[t].promptStripped

\* C24 witness: the length test resolved the filter on the second delta of
\* a response that does not begin with the prompt.
C24_Witness ==
    \E t \in Turns :
        /\ turns[t].pc = "active"
        /\ ~turns[t].hasCompleted /\ ~turns[t].hasError
        /\ Len(turns[t].deltas) >= 2
        /\ ~EchoOf(turns[t].deltaText, turns[t].prompt)
        /\ Len(Head(turns[t].deltas)) <= 2 * Len(turns[t].prompt)
        /\ turns[t].promptStripped
        /\ turns[t].chunks = turns[t].deltas

\* C25: the messageCount of a registered session never decreases; a
\* streaming turn submitted on a registered session raises it by exactly
\* one; an entry added by createNewSession starts at 0 and one added by a
\* streaming turn starts at 1.
C25_MessageCountPerTurn ==
    /\ [][\A id \in DOMAIN sessions :
            id \in DOMAIN sessions' =>
                sessions'[id].messageCount >= sessions[id].messageCount]_vars
    /\ [][\A t \in Turns :
            (/\ turns[t].pc \in {"none", "awaitStart"}
             /\ turns'[t].pc = "active") =>
                sessions'[turns'[t].sessionId].messageCount =
                    sessions[turns'[t].sessionId].messageCount + 1]_vars
    /\ [][\A id \in DOMAIN sessions' \ DOMAIN sessions :
            sessions'[id].messageCount =
                IF \E t \in Turns : /\ turns[t].pc = "awaitCreate"
                                    /\ turns'[t].pc = "active"
                THEN 1 ELSE 0]_vars

\* C26: a turn that is terminal (a terminal callback was invoked, or one of
\* its flags is set) has no safety timer pending, whatever ended it: the
\* completion event, the error event, an exception in the listener and a
\* failure of send have cancelled it, so the timer callback never runs for
\* a terminal turn.
C26_TimerCancelled ==
    \A t \in Turns :
        (Terminal(turns[t]) \/ turns[t].hasCompleted \/ turns[t].hasError) =>
            turns[t].timeoutId # "armed"

\* C26 witness: an error event ended a turn whose timer was pending.
C26_Witness ==
    \E t \in Turns :
        /\ turns[t].pc = "active"
        /\ turns[t].sawError /\ turns[t].errors # <<>>
        /\ turns[t].completed = <<>>
        /\ turns[t].timeoutId = "cleared"

\* C27: the listener a turn registered on its session handle is released
\* when the turn terminates: no turn whose terminal callback has been
\* invoked is still listening on the handle.
C27_ListenerReleased ==
    \A t \in Turns :
        (turns[t].pc = "active" /\ Terminal(turns[t])) => ~turns[t].listening

\* ty is one of the type names the listener knows
IsKnownType(ty) ==
    \/ IsDeltaType(ty) \/ IsMessageType(ty) \/ IsIdleType(ty)
    \/ IsToolType(ty) \/ IsStatusType(ty) \/ IsErrorType(ty)

\* The first discriminator value, in the order type, event, kind, that is a
\* known type name; the first present one when none is
FirstKnownType(ev) ==
    IF IsKnownType(ev.type) THEN ev.type
    ELSE IF IsKnownType(ev.event) THEN ev.event
    ELSE IF IsKnownType(ev.kind) THEN ev.kind
    ELSE EventType(ev)

\* What a caller can observe of a turn
Outcome(ts) ==
    [chunks |-> ts.chunks, completed |-> ts.completed, errors |-> ts.errors,
     hasCompleted |-> ts.hasCompleted, hasError |-> ts.hasError,
     timeoutId |-> ts.timeoutId, promise |-> ts.promise]

\* C28: an event is handled as an event of the first of its discriminator
\* values (type, event, kind, in this order) that is a known type name: an
\* event with type "x" and event "delta" is handled as a delta.
C28_FirstKnownDiscriminator ==
    [][\A t \in Turns, ev \in ClassEvents :
          (turns[t].listening /\ Emit(turns[t].session, ev, NoThrow)) =>
              Outcome(turns'[t]) =
                  Outcome(Listener(turns[t], Ev(FirstKnownType(ev), ev.data),
                                   NoThrow))]_vars

\* String.prototype.toLowerCase on the type names of ClassEvents
LowerName(ty) ==
    IF ty = "Session.Idle" THEN "session.idle"
    ELSE IF ty = "ERROR" THEN "error" ELSE ty

\* C29: type names are matched whatever their letter case: an event is
\* handled as the event with the lower-case type name is ("Session.Idle"
\* completes the turn as "session.idle" does, "ERROR" ends it as "error").
C29_TypeNamesCaseInsensitive ==
    [][\A t \in Turns, ev \in ClassEvents :
          (turns[t].listening /\ Emit(turns[t].session, ev, NoThrow)) =>
              Outcome(turns'[t]) =
                  Outcome(Listener(turns[t],
                                   Ev(LowerName(EventType(ev)), ev.data),
                                   NoThrow))]_vars

\* The events of ClassEvents whose type name is not a known one
UnrecognizedEvents == {e \in ClassEvents : ~IsKnownType(EventType(e))}

\* The listener passes the content of the unrecognized event ev to onChunk
Forwards(ts, ev) ==
    /\ ~ts.hasCompleted /\ ~ts.hasError
    /\ UnknownContent(ev.data) # <<>>
    /\ IsString(UnknownContent(ev.data))

\* The step leaves turn t as it was, but for the chunks passed to onChunk
StaysAsItWas(t) ==
    /\ turns'[t].completed = turns[t].completed
    /\ turns'[t].errors = turns[t].errors
    /\ turns'[t].hasCompleted = turns[t].hasCompleted
    /\ turns'[t].hasError = turns[t].hasError
    /\ turns'[t].timeoutId = turns[t].timeoutId
    /\ turns'[t].promise = turns[t].promise

\* C30: an event of unrecognized type invokes no terminal callback, leaves
\* the flags, the timer and the promise of the turn untouched, and passes
\* its content to onChunk exactly when the turn is active and the content
\* is a non-empty string.
C30_UnrecognizedNeverFatal ==
    [][\A t \in Turns, ev \in UnrecognizedEvents, thr \in Throws :
          (turns[t].listening /\ Emit(turns[t].session, ev, thr)) =>
              /\ StaysAsItWas(t)
              /\ turns'[t].chunks =
                     IF Forwards(turns[t], ev)
                     THEN Append(turns[t].chunks, UnknownContent(ev.data))
                     ELSE turns[t].chunks]_vars

\* C30 as amended: the same, unless the onChunk call the event causes
\* throws; then the catch block of the listener ends the turn as errored
\* with one onError call and cancels the timer.
C30_UnrecognizedFatalOnlyByThrow ==
    [][\A t \in Turns, ev \in UnrecognizedEvents, thr \in Throws :
          (turns[t].listening /\ Emit(turns[t].session, ev, thr)) =>
              /\ turns'[t].chunks =
                     IF Forwards(turns[t], ev)
                     THEN Append(turns[t].chunks, UnknownContent(ev.data))
                     ELSE turns[t].chunks
              /\ IF Forwards(turns[t], ev) /\ thr.onChunk
                 THEN /\ turns'[t].errors = Append(turns[t].errors, Exception)
                      /\ turns'[t].completed = turns[t].completed
                      /\ turns'[t].hasError
                      /\ turns'[t].timeoutId # "armed"
                 ELSE StaysAsItWas(t)]_vars

\* C30 witness: an unrecognized event with a text reached an active turn,
\* its text was forwarded and the turn is still active, its timer pending.
C30_Witness ==
    \E t \in Turns :
        /\ turns[t].sawOther
        /\ turns[t].chunks = <<X>>
        /\ ~turns[t].hasCompleted /\ ~turns[t].hasError
        /\ ~Terminal(turns[t])
        /\ turns[t].timeoutId = "armed"

\* C31: when stop() completes the registry holds no session, and from then
\* on no registered identifier resolves to a handle that the stopped client
\* had created.
C31_StopDestroysSessions ==
    /\ [][(shutdown.pc # "done" /\ shutdown'.pc = "done") =>
             sessions' = <<>>]_vars
    /\ [](shutdown.pc = "done" =>
             \A id \in DOMAIN sessions :
                 sessions[id].session > shutdown.handles)

\* C32: when initialize() or client.createSession throws, the
\* createNewSession / getOrCreateSession call fails with that error, returns
\* no identifier, and the step leaves the registry exactly as it was; the
\* call has added no key.
C32_FailedCreateLeavesRegistry ==
    [][\A o \in Ops :
          (ops[o].pc # "failed" /\ ops'[o].pc = "failed") =>
              /\ sessions' = sessions
              /\ ops'[o].error = AdapterError
              /\ ops'[o].result = NoId
              /\ ops'[o].added = 0]_vars

\* A createSession call of createNewSession has thrown while the registry
\* holds a session.
C32_Witness ==
    \E o \in Ops :
        /\ ops[o].pc = "failed"
        /\ ops[o].calls = 1
        /\ sessions # <<>>

\* C33: no createSession is issued before start() has completed: a call
\* that arrives while another call awaits client.start() does not go on to
\* client.createSession as if the client were ready.
C33_NoCreateBeforeStarted ==
    [][/\ \A t \in Turns :
            (turns[t].pc # "awaitCreate" /\ turns'[t].pc = "awaitCreate") =>
                client' = "started"
       /\ \A o \in Ops :
            (ops[o].pc # "awaitCreate" /\ ops'[o].pc = "awaitCreate") =>
                client' = "started"]_vars

\* C34: when two streaming turns are in flight on the same session, an
\* event is delivered to one of them only: no event reaches the onChunk of
\* both, and no completion event completes both.
C34_EventToOneTurn ==
    [][\A t1 \in Turns, t2 \in Turns :
          (/\ t1 < t2
           /\ turns[t1].pc = "active" /\ ~Terminal(turns[t1])
           /\ turns[t2].pc = "active" /\ ~Terminal(turns[t2])
           /\ turns[t1].session = turns[t2].session) =>
              /\ ~(/\ turns'[t1].chunks # turns[t1].chunks
                   /\ turns'[t2].chunks # turns[t2].chunks)
              /\ ~(/\ turns'[t1].completed # turns[t1].completed
                   /\ turns'[t2].completed # turns[t2].completed)]_vars

\* C35: once a terminal callback of a streaming turn has been invoked, the
\* promise of the turn is settled, also when the callback threw: resolved
\* with the session identifier after onComplete, rejected after onError.
C35_TerminalSettles ==
    \A t \in Turns :
        /\ turns[t].completed # <<>> =>
               /\ turns[t].promise.state = "resolved"
               /\ turns[t].promise.value = turns[t].currentSessionId
        /\ (turns[t].errors # <<>> /\ turns[t].completed = <<>>) =>
               turns[t].promise.state = "rejected"

\* C36: when sendPromptStreaming fails before the turn starts (initialize
\* or createSession throws), onError is invoked exactly once, onComplete
\* and onChunk never, the registry is left as it was, and the promise is
\* rejected with the error that was thrown.
C36_FailureBeforeTurn ==
    [][\A t \in Turns :
          (turns[t].pc # "failed" /\ turns'[t].pc = "failed") =>
              /\ turns'[t].errors = <<AdapterError>>
              /\ turns'[t].completed = <<>>
              /\ turns'[t].chunks = <<>>
              /\ sessions' = sessions
              /\ turns'[t].promise = [state |-> "rejected",
                                      value |-> AdapterError]]_vars

\* C37: sendPrompt neither uses nor changes the registry: no step of the
\* call changes sessions (keys, handles, message counts), and the handle it
\* sends on is a fresh one that no registry entry holds, also when its
\* sessionId argument is registered.
C37_SendPromptIgnoresRegistry ==
    /\ [][send' # send => sessions' = sessions]_vars
    /\ [](send.session # NoHandle =>
              \A id \in DOMAIN sessions : sessions[id].session # send.session)

\* A sendPrompt call with a registered sessionId has been answered on a
\* handle of its own.
C37_Witness ==
    /\ send.sessionId \in DOMAIN sessions
    /\ send.promise.state = "resolved"
    /\ send.session # sessions[send.sessionId].session
    /\ sessions[send.sessionId].messageCount = 1

\* C38: every sendPrompt call eventually settles: its promise does not
\* stay pending, also when the assistant emits no completion and no error
\* event and sendAndWait never settles.
C38_SendPromptSettles ==
    (send.promise.state = "pending") ~> (send.promise.state # "pending")

\* C39: when the handling of an event throws (a callback throws) while the
\* turn is still Active, the turn becomes Errored with exactly one onError
\* call, its timer is cancelled and its promise is rejected; when the turn
\* is terminal at the throw, the exception invokes no callback.
C39_HandlerExceptionEndsTurn ==
    [][\A t \in Turns, ev \in MainEvents, thr \in Throws :
          LET r == HandlerTry(Delivered(turns[t], ev), ev, thr) IN
          (/\ emitted' = emitted + 1
           /\ turns[t].listening
           /\ turns'[t] = Listener(turns[t], ev, thr)
           /\ r.threw) =>
              IF ~r.ts.hasCompleted /\ ~r.ts.hasError
              THEN /\ turns'[t].hasError
                   /\ turns'[t].errors = Append(r.ts.errors, Exception)
                   /\ turns'[t].completed = r.ts.completed
                   /\ turns'[t].timeoutId # "armed"
                   /\ turns'[t].promise.state = "rejected"
              ELSE /\ turns'[t].chunks = r.ts.chunks
                   /\ turns'[t].completed = r.ts.completed
                   /\ turns'[t].errors = r.ts.errors]_vars

====
